---- MODULE Spec2Model ----
(***************************************************************************)
(* A model of django_opensearch_dsl.documents.Document:                    *)
(*   - the index lifecycle (get_index_name, get_all_indices,               *)
(*     get_active_index, migrate, init) against a search engine holding    *)
(*     indices and aliases, migrate also in two steps for callers that     *)
(*     overlap;                                                            *)
(*   - the pagination loop of get_indexing_queryset;                       *)
(*   - the action builder and the two bulk strategies behind update.       *)
(* Names are sequences of one-character strings, so that concatenation,    *)
(* prefix matching and lexicographic sorting are computed, not assumed.    *)
(***************************************************************************)
EXTENDS Integers, Sequences, FiniteSets, TLC

VARIABLES
    indices,    \* engine: the names of the existing indices
    aliases,    \* engine: the set of [index, alias] pairs
    requests,   \* the write requests the last lifecycle call sent to the engine
    calls,      \* the completed lifecycle calls, oldest first, each with its pre-state
    inflight,   \* per caller, the migrate call between its reads and its alias batch
    db,         \* the primary keys of the records in the filtered record set
    chunk_size, \* self.django.queryset_pagination
    count,      \* get_indexing_queryset: qs.count(), taken once
    i,          \* get_indexing_queryset: the offset of the next page
    done,       \* get_indexing_queryset: the records yielded, as the loop counts them
    page,       \* the records of the page being iterated that are not yet yielded
    yielded,    \* the records the generator has yielded, in order
    pulls,      \* the slice queries qs[i : i + chunk_size] evaluated
    writes,     \* the inserts and removals other writers made since the count
    pc,         \* where the generator stands
    should_index,   \* should_index_object, as the document type defines it
    auto_refresh,   \* the auto_refresh attribute of the document's Index class, if any
    default_refresh, \* DODConfig.auto_refresh_enabled(), the process-wide default
    object_list,    \* update: the records given
    action,         \* update: the op type asked for
    index_suffix,   \* update: the index_suffix argument
    update_index_name, \* update: its index_name, the target index name or None
    refresh_arg,    \* update: the refresh argument
    refresh,        \* update: the refresh value handed to _bulk
    parallel,       \* _bulk: the strategy
    raise_on_error, \* the helpers' raise_on_error keyword
    pos,            \* _get_actions: the records of object_list consumed
    buffer,         \* the bulk helper: the actions of the chunk being filled
    emitted,        \* the actions _get_actions has yielded, in order
    prepared,       \* the records prepare() has run on, in order
    engine_writes,  \* the actions that reached the engine, each with its outcome
    signals,        \* the post_index signals sent
    result,         \* what update returned
    error,          \* the exception that left update, if any
    prepare_failed_at, \* the position in object_list of the record prepare() failed on
    bpc             \* where the update call stands

ivars == <<indices, aliases, requests, calls, inflight>>
cvars == <<chunk_size>>
pvars == <<db, count, i, done, page, yielded, pulls, writes, pc>>
\* what the document type and the settings define
envvars == <<should_index, auto_refresh, default_refresh>>
\* the arguments of the update call and what update derives from them
argvars == <<object_list, action, index_suffix, update_index_name, parallel,
             raise_on_error, refresh_arg, refresh>>
bvars == <<envvars, argvars,
           pos, buffer, emitted, prepared, engine_writes, signals, result, error,
           prepare_failed_at, bpc>>
vars == <<ivars, cvars, pvars, bvars>>

(***************************************************************************)
(* Bounds.                                                                 *)
(***************************************************************************)
\* lifecycle calls per behaviour
MaxCalls == 4
\* primary keys are 1..MaxRecords
MaxRecords == 4
\* page sizes are 1..MaxChunk
MaxChunk == 5
\* inserts and removals by other writers during one iteration
MaxWrites == 2
\* records are 1..MaxPk in the bulk part
MaxPk == 2
\* the records given to one update call
MaxObjects == 2
\* queryset_pagination is 1..MaxBulkChunk in the bulk part
MaxBulkChunk == 2

(***************************************************************************)
(* Names.                                                                  *)
(***************************************************************************)
\* Python's None; no name is equal to it (its element is not a character).
None == <<"None">>

\* `if x:` on an Optional[str] / Optional[Index]
Truthy(x) == x # None /\ x # <<>>

\* cls._index._name, the base name of the document's index
BaseName == <<"b">>

VERSION_NAME_SEPARATOR == <<"-", "-">>

\* the suffixes the callers pass
Suffixes == { <<"1">>, <<"2">>, <<"1", "2">> }

\* the values datetime.now().strftime(...) can take in a behaviour
Timestamps == { <<"2">> }

\* the code point of a character: Python compares str by code point
Ord(c) ==
    CASE c = "-" -> 45
      [] c = "1" -> 49
      [] c = "2" -> 50
      [] c = "b" -> 98

\* s < t for Python str
RECURSIVE StrLess(_, _)
StrLess(s, t) ==
    IF t = <<>> THEN FALSE
    ELSE IF s = <<>> THEN TRUE
    ELSE IF Head(s) # Head(t) THEN Ord(Head(s)) < Ord(Head(t))
    ELSE StrLess(Tail(s), Tail(t))

\* sorted(names)
RECURSIVE sorted(_)
sorted(S) ==
    IF S = {} THEN <<>>
    ELSE LET m == CHOOSE x \in S : \A y \in S \ {x} : StrLess(x, y)
         IN  <<m>> \o sorted(S \ {m})

\* name.startswith(prefix): how the engine expands the pattern "prefix*"
StartsWith(name, prefix) ==
    /\ Len(name) >= Len(prefix)
    /\ SubSeq(name, 1, Len(prefix)) = prefix

get_index_name(suffix) ==
    IF Truthy(suffix) THEN BaseName \o VERSION_NAME_SEPARATOR \o suffix
    ELSE BaseName

(***************************************************************************)
(* The engine, as the code calls it.                                       *)
(***************************************************************************)
\* indices.exists(name): a name resolves when it is an index or an alias
exists(idx, al, name) ==
    name \in idx \/ \E a \in al : a.alias = name

\* indices.get(f"{base}{sep}*").keys()
indices_get(idx) ==
    { n \in idx : StartsWith(n, BaseName \o VERSION_NAME_SEPARATOR) }

\* index.exists_alias(name=alias)
exists_alias(al, index, alias) == [index |-> index, alias |-> alias] \in al

\* a plausible slip: the delete names a pattern, every index so prefixed goes
delete_index_by_prefix(idx, al, name) ==
    IF name \in idx
    THEN [ok |-> TRUE, indices |-> { n \in idx : ~StartsWith(n, name) },
          aliases |-> { a \in al : ~StartsWith(a.index, name) }]
    ELSE [ok |-> FALSE, indices |-> idx, aliases |-> al]

\* Index.delete(): the index goes, with the aliases it holds
delete_index(idx, al, name) ==
    IF name \in idx
    THEN [ok |-> TRUE, indices |-> idx \ {name},
          aliases |-> { a \in al : a.index # name }]
    ELSE [ok |-> FALSE, indices |-> idx, aliases |-> al]

\* the alias actions applied in order to a working copy of the alias table: an
\* action on a missing index, or an add of an alias named like an index, is
\* refused; a remove of an alias the index does not hold changes nothing
RECURSIVE apply_alias_actions(_, _, _)
apply_alias_actions(idx, al, actions) ==
    IF actions = <<>> THEN [ok |-> TRUE, aliases |-> al]
    ELSE LET a    == Head(actions)
             pair == [index |-> a.index, alias |-> a.alias]
         IN  IF a.index \notin idx THEN [ok |-> FALSE, aliases |-> al]
             ELSE IF a.op = "add"
             THEN IF a.alias \in idx THEN [ok |-> FALSE, aliases |-> al]
                  ELSE apply_alias_actions(idx, al \cup {pair}, Tail(actions))
             ELSE apply_alias_actions(idx, al \ {pair}, Tail(actions))

\* indices.update_aliases(body={"actions": actions}): all the actions or none;
\* a batch of removes of which none can be done is refused
update_aliases(idx, al, actions) ==
    LET r == apply_alias_actions(idx, al, actions)
        only_removes == actions # <<>> /\ \A k \in DOMAIN actions : actions[k].op = "remove"
    IN  IF r.ok /\ ~(only_removes /\ r.aliases = al)
        THEN [ok |-> TRUE, aliases |-> r.aliases]
        ELSE [ok |-> FALSE, aliases |-> al]

(***************************************************************************)
(* Document: the index lifecycle.                                          *)
(***************************************************************************)
\* a plausible slip: the pattern is "<base>*", without the separator
get_all_indices_by_base_prefix(idx) ==
    sorted({ n \in idx : StartsWith(n, BaseName) })

get_all_indices(idx) == sorted(indices_get(idx))

RECURSIVE first_with_alias(_, _)
first_with_alias(seq, al) ==
    IF seq = <<>> THEN None
    ELSE IF exists_alias(al, Head(seq), BaseName) THEN Head(seq)
    ELSE first_with_alias(Tail(seq), al)

get_active_index(idx, al) == first_with_alias(get_all_indices(idx), al)

AddAction(index_name) == [op |-> "add", index |-> index_name, alias |-> BaseName]
RemoveAction(index_name) == [op |-> "remove", index |-> index_name, alias |-> BaseName]

\* a plausible slip: the remove action is appended after the add
migrate_actions_add_first(index_name, active_index) ==
    IF Truthy(active_index)
    THEN << AddAction(index_name), RemoveAction(active_index) >>
    ELSE << AddAction(index_name) >>

\* a plausible slip: the remove action names the target, not the holder
migrate_actions_remove_target(index_name, active_index) ==
    IF Truthy(active_index)
    THEN << RemoveAction(index_name), AddAction(index_name) >>
    ELSE << AddAction(index_name) >>

\* actions_on_aliases, as migrate builds it
migrate_actions(index_name, active_index) ==
    IF Truthy(active_index)
    THEN << RemoveAction(active_index), AddAction(index_name) >>
    ELSE << AddAction(index_name) >>

\* a plausible slip: the bare index is never deleted
migrate_deletes_bare_never(actions_on_aliases, idx, al) == FALSE

\* `len(actions_on_aliases) == 1 and cls._index.exists()`
migrate_deletes_bare(actions_on_aliases, idx, al) ==
    Len(actions_on_aliases) = 1 /\ exists(idx, al, BaseName)

DeleteRequest(name) == [op |-> "delete", index |-> name, actions |-> <<>>]
CreateRequest(name) == [op |-> "create", index |-> name, actions |-> <<>>]
PutMappingRequest(name) == [op |-> "put_mapping", index |-> name, actions |-> <<>>]
UpdateAliasesRequest(actions) ==
    [op |-> "update_aliases", index |-> None, actions |-> actions]

\* Document.migrate(suffix) from the engine state (idx, al): the engine state
\* it leaves, the requests it sent in order, and whether it raised
migrate_run(idx, al, suffix) ==
    LET index_name == get_index_name(suffix)
        actions_on_aliases == migrate_actions(index_name, get_active_index(idx, al))
        del == migrate_deletes_bare(actions_on_aliases, idx, al)
        d == IF del THEN delete_index(idx, al, BaseName)
             ELSE [ok |-> TRUE, indices |-> idx, aliases |-> al]
        sent == IF del THEN << DeleteRequest(BaseName) >> ELSE <<>>
    IN  IF ~d.ok
        THEN [indices |-> idx, aliases |-> al, requests |-> sent, raised |-> TRUE]
        ELSE LET u == update_aliases(d.indices, d.aliases, actions_on_aliases)
             IN  [indices |-> d.indices, aliases |-> u.aliases,
                  requests |-> sent \o << UpdateAliasesRequest(actions_on_aliases) >>,
                  raised |-> ~u.ok]

\* a plausible slip: init activates its index whatever it finds
init_migrates_always(idx, al, created) == TRUE

\* a plausible reading: activate whenever the concrete index is new
init_migrates_when_created(idx, al, created) == created

\* `if not cls._index.exists()`, evaluated after the concrete index is saved
init_migrates(idx, al, created) == ~exists(idx, al, BaseName)

\* Document.init(suffix), suffix already defaulted
init_run(idx, al, suffix) ==
    LET index_name == get_index_name(suffix)
        created == ~exists(idx, al, index_name)
        idx1 == idx \cup {index_name}
        sent == IF created THEN << CreateRequest(index_name) >>
                ELSE << PutMappingRequest(index_name) >>
    IN  IF init_migrates(idx1, al, created)
        THEN LET m == migrate_run(idx1, al, suffix)
             IN  [m EXCEPT !.requests = sent \o m.requests]
        ELSE [indices |-> idx1, aliases |-> al, requests |-> sent, raised |-> FALSE]

\* an entry of the call log; overlapped tells whether another call's alias batch
\* reached the engine between this call's reads and its own batch
Call(op, suffix, raised) ==
    [op |-> op, suffix |-> suffix, raised |-> raised,
     indices |-> indices, aliases |-> aliases, overlapped |-> FALSE]

\* the callers that can be inside migrate at the same time
Callers == { "A", "B" }

\* a caller that is not inside migrate
NotInMigrate ==
    [stage |-> "idle", suffix |-> None, actions |-> <<>>, overlapped |-> FALSE]

\* the callers between the reads of migrate and its alias batch
Submitting == { p \in Callers : inflight[p].stage = "submit" }

\* a whole call, with no other call inside it
Finish(op, suffix, r) ==
    /\ indices' = r.indices
    /\ aliases' = r.aliases
    /\ requests' = r.requests
    /\ calls' = Append(calls, Call(op, suffix, r.raised))
    /\ inflight' = [ p \in Callers |->
                       IF p \in Submitting /\ r.aliases # aliases
                       THEN [inflight[p] EXCEPT !.overlapped = TRUE]
                       ELSE inflight[p] ]
    /\ UNCHANGED <<cvars, pvars, bvars>>

\* Document.init(suffix=None)
init ==
    /\ Len(calls) + Cardinality(Submitting) < MaxCalls
    /\ \E given \in Suffixes \cup {None}, now \in Timestamps :
          LET suffix == IF Truthy(given) THEN given ELSE now
          IN  Finish("init", suffix, init_run(indices, aliases, suffix))

\* Document.migrate(suffix)
migrate ==
    /\ Len(calls) + Cardinality(Submitting) < MaxCalls
    /\ \E suffix \in Suffixes :
          Finish("migrate", suffix, migrate_run(indices, aliases, suffix))

\* A bulk write addressed to the bare base name while nothing is named so:
\* the engine creates the index of that name.
write_to_bare_name ==
    /\ Len(calls) + Cardinality(Submitting) < MaxCalls
    /\ ~exists(indices, aliases, BaseName)
    /\ Finish("write", None,
              [indices |-> indices \cup {BaseName}, aliases |-> aliases,
               requests |-> << CreateRequest(BaseName) >>, raised |-> FALSE])

\* Document.migrate(suffix) by caller p, lines 103-117: the active generation is
\* read, the actions are built and the bare index is deleted if need be
migrate_read(p) ==
    /\ inflight[p].stage = "idle"
    /\ Len(calls) + Cardinality(Submitting) < MaxCalls
    /\ \E suffix \in Suffixes :
          LET index_name == get_index_name(suffix)
              actions_on_aliases ==
                  migrate_actions(index_name, get_active_index(indices, aliases))
              del == migrate_deletes_bare(actions_on_aliases, indices, aliases)
              d == IF del THEN delete_index(indices, aliases, BaseName)
                   ELSE [ok |-> TRUE, indices |-> indices, aliases |-> aliases]
          IN  /\ indices' = d.indices
              /\ aliases' = d.aliases
              /\ requests' = IF del THEN << DeleteRequest(BaseName) >> ELSE <<>>
              /\ IF d.ok
                 THEN /\ inflight' = [inflight EXCEPT ![p] =
                                         [stage |-> "submit", suffix |-> suffix,
                                          actions |-> actions_on_aliases,
                                          overlapped |-> FALSE]]
                      /\ UNCHANGED calls
                 ELSE /\ calls' = Append(calls, Call("migrate", suffix, TRUE))
                      /\ UNCHANGED inflight
    /\ UNCHANGED <<cvars, pvars, bvars>>

\* Document.migrate(suffix) by caller p, lines 119-121: the alias batch built from
\* what the call read is sent
migrate_submit(p) ==
    /\ inflight[p].stage = "submit"
    /\ LET u == update_aliases(indices, aliases, inflight[p].actions)
       IN  /\ aliases' = u.aliases
           /\ requests' = << UpdateAliasesRequest(inflight[p].actions) >>
           /\ calls' = Append(calls,
                  [Call("migrate", inflight[p].suffix, ~u.ok)
                      EXCEPT !.overlapped = inflight[p].overlapped])
           /\ inflight' = [ q \in Callers |->
                  IF q = p THEN NotInMigrate
                  ELSE IF q \in Submitting /\ u.aliases # aliases
                  THEN [inflight[q] EXCEPT !.overlapped = TRUE]
                  ELSE inflight[q] ]
    /\ UNCHANGED indices
    /\ UNCHANGED <<cvars, pvars, bvars>>

InitIndex ==
    /\ indices = {}
    /\ aliases = {}
    /\ requests = <<>>
    /\ calls = <<>>
    /\ inflight = [ p \in Callers |-> NotInMigrate ]

\* the lifecycle part when the model is about something else
IdleIndex == InitIndex

NextIndex == init \/ migrate \/ write_to_bare_name

\* the calls of several callers, migrate in its two steps
NextRace ==
    \/ init
    \/ write_to_bare_name
    \/ \E p \in Callers : migrate_read(p)
    \/ \E p \in Callers : migrate_submit(p)

(***************************************************************************)
(* Document.get_indexing_queryset: the pagination loop. The record set db  *)
(* is the queryset after filter_ and exclude, with no count limit, so the  *)
(* queryset is ordered by primary key.                                     *)
(***************************************************************************)
Min(a, b) == IF a < b THEN a ELSE b

\* qs.order_by("pk"): the records in ascending primary key order
RECURSIVE order_by_pk(_)
order_by_pk(S) ==
    IF S = {} THEN <<>>
    ELSE LET m == CHOOSE x \in S : \A y \in S : x <= y
         IN  <<m>> \o order_by_pk(S \ {m})

\* qs[lo : hi] evaluated on the record set S: rows lo+1 .. hi of the ordered set
qs_slice(S, lo, hi) ==
    LET rows == order_by_pk(S)
    IN  SubSeq(rows, lo + 1, Min(hi, Len(rows)))

\* a plausible slip: the offset is not capped at the count
next_offset_uncapped(offset, size, total) == offset + size

\* a plausible slip: the offset advances by one record, not by one page
next_offset_by_one(offset, size, total) == Min(offset + 1, total)

\* `i = min(i + chunk_size, count)`
next_offset(offset, size, total) == Min(offset + size, total)

\* the pull counter is an observer of the loop; it stops counting at PullsCap
PullsCap == MaxRecords + 3

\* lines 175-184: the first next() runs the generator up to the loop
count_records ==
    /\ pc = "start"
    /\ count' = Cardinality(db)
    /\ i' = 0
    /\ done' = 0
    /\ pc' = "loop"
    /\ UNCHANGED <<db, chunk_size, page, yielded, pulls, writes>>
    /\ UNCHANGED <<ivars, bvars>>

\* `while done < count:` holds and `qs[i : i + chunk_size]` is evaluated
pull ==
    /\ pc = "loop"
    /\ done < count
    /\ page' = qs_slice(db, i, i + chunk_size)
    /\ pulls' = IF pulls < PullsCap THEN pulls + 1 ELSE pulls
    /\ pc' = "iterate"
    /\ UNCHANGED <<db, chunk_size, count, i, done, yielded, writes>>
    /\ UNCHANGED <<ivars, bvars>>

\* `done += 1; yield obj`
yield_obj ==
    /\ pc = "iterate"
    /\ page # <<>>
    /\ done' = done + 1
    /\ yielded' = Append(yielded, Head(page))
    /\ page' = Tail(page)
    /\ UNCHANGED <<db, chunk_size, count, i, pulls, writes, pc>>
    /\ UNCHANGED <<ivars, bvars>>

\* the page is exhausted: `i = min(i + chunk_size, count)`
advance ==
    /\ pc = "iterate"
    /\ page = <<>>
    /\ i' = next_offset(i, chunk_size, count)
    /\ pc' = "loop"
    /\ UNCHANGED <<db, chunk_size, count, done, page, yielded, pulls, writes>>
    /\ UNCHANGED <<ivars, bvars>>

\* `while done < count:` fails: the generator is exhausted
finish ==
    /\ pc = "loop"
    /\ ~(done < count)
    /\ pc' = "finished"
    /\ UNCHANGED <<db, chunk_size, count, i, done, page, yielded, pulls, writes>>
    /\ UNCHANGED <<ivars, bvars>>

\* another writer inserts a record into the filtered set during the iteration
insert_record ==
    /\ pc \in {"loop", "iterate"}
    /\ writes < MaxWrites
    /\ \E pk \in (1..MaxRecords) \ db : db' = db \cup {pk}
    /\ writes' = writes + 1
    /\ UNCHANGED <<chunk_size, count, i, done, page, yielded, pulls, pc>>
    /\ UNCHANGED <<ivars, bvars>>

\* another writer removes a record from the filtered set during the iteration
remove_record ==
    /\ pc \in {"loop", "iterate"}
    /\ writes < MaxWrites
    /\ \E pk \in db : db' = db \ {pk}
    /\ writes' = writes + 1
    /\ UNCHANGED <<chunk_size, count, i, done, page, yielded, pulls, pc>>
    /\ UNCHANGED <<ivars, bvars>>

InitPage ==
    /\ db \in SUBSET (1..MaxRecords)
    /\ chunk_size \in 1..MaxChunk
    /\ count = 0
    /\ i = 0
    /\ done = 0
    /\ page = <<>>
    /\ yielded = <<>>
    /\ pulls = 0
    /\ writes = 0
    /\ pc = "start"

\* the pagination part when the model is about something else
IdlePage ==
    /\ db = {}
    /\ count = 0
    /\ i = 0
    /\ done = 0
    /\ page = <<>>
    /\ yielded = <<>>
    /\ pulls = 0
    /\ writes = 0
    /\ pc = "idle"

\* the generator, driven by its consumer
NextPage == count_records \/ pull \/ yield_obj \/ advance \/ finish

\* the generator and the other writers of the record set
NextPageWrites == NextPage \/ insert_record \/ remove_record

(***************************************************************************)
(* Document.update: the action builder and the two bulk strategies. A      *)
(* record is its primary key. The helpers bulk and parallel_bulk pull the  *)
(* lazy action stream, fill a chunk and send it to the engine, which       *)
(* answers each action with success or failure.                            *)
(***************************************************************************)
Records == 1..MaxPk

OpTypes == {"index", "create", "update", "delete"}

\* the lists of records an update call is given
ObjectLists == UNION { [1..n -> Records] : n \in 0..MaxObjects }

\* the index_suffix arguments of update
UpdateSuffixes == { None, <<"1">> }

\* self.__class__, the sender of post_index
DocumentClass == "Document"

\* the field names of self._prepared_fields, in order
PreparedFields == << "title", "body" >>

\* prep_func(instance) of a field: the value extracted from the record
prep_func(name, r) == << name, r >>

\* Document.prepare: the (name, value) items of the extracted mapping
prepare(r) ==
    [ k \in 1..Len(PreparedFields) |->
        << PreparedFields[k], prep_func(PreparedFields[k], r) >> ]

generate_id(r) == r

\* `... if action != "delete" else None`: whether prepare is called
prepare_runs(act) == act # "delete"

\* a plausible slip: index_name is dropped, every action targets the bare name
prepare_action_to_bare_name(r, act, name) ==
    LET key == IF act # "update" THEN "_source" ELSE "doc"
    IN  [ k \in {"_op_type", "_index", "_id", key} |->
            CASE k = "_op_type" -> act
              [] k = "_index"   -> BaseName
              [] k = "_id"      -> generate_id(r)
              [] OTHER          -> IF prepare_runs(act) THEN prepare(r) ELSE None ]

\* a plausible slip: the extracted mapping is always attached as "_source"
prepare_action_always_source(r, act, name) ==
    [ k \in {"_op_type", "_index", "_id", "_source"} |->
        CASE k = "_op_type" -> act
          [] k = "_index"   -> IF Truthy(name) THEN name ELSE BaseName
          [] k = "_id"      -> generate_id(r)
          [] OTHER          -> IF prepare_runs(act) THEN prepare(r) ELSE None ]

\* Document._prepare_action: the dict it returns
prepare_action(r, act, name) ==
    LET key == IF act # "update" THEN "_source" ELSE "doc"
    IN  [ k \in {"_op_type", "_index", "_id", key} |->
            CASE k = "_op_type" -> act
              [] k = "_index"   -> IF Truthy(name) THEN name ELSE BaseName
              [] k = "_id"      -> generate_id(r)
              [] OTHER          -> IF prepare_runs(act) THEN prepare(r) ELSE None ]

\* a plausible slip: the predicate is asked for deletes too
get_actions_includes_by_predicate(act, r) == should_index[r]

\* `if action == "delete" or self.should_index_object(object_instance)`
get_actions_includes(act, r) == act = "delete" \/ should_index[r]

\* the chunk_size of opensearchpy.helpers.bulk when the caller gives none
BULK_DEFAULT_CHUNK_SIZE == 500

\* the chunk size the helper works with: parallel_bulk sets it to
\* queryset_pagination, bulk leaves the helper's default
helper_chunk_size == IF parallel THEN chunk_size ELSE BULK_DEFAULT_CHUNK_SIZE

\* a plausible slip: the lazy parallel_bulk generator is not iterated
drained_not_awaited(p, buf, objs) == TRUE

\* the helper's generator is exhausted: the stream is consumed, the last chunk sent
drained(p, buf, objs) == p = Len(objs) /\ buf = <<>>

\* refresh=None, the default of update's keyword
NotGiven == "None"

\* the Index class of the document defines no auto_refresh
Undefined == "undefined"

\* the refresh arguments of update
RefreshArgs == { NotGiven, "True", "False" }

\* a plausible slip: `refresh = refresh or getattr(...)`, which overrides an
\* explicit False
resolve_refresh_when_falsy(rf, attr, default) ==
    IF rf # "True" THEN (IF attr # Undefined THEN attr ELSE default) ELSE rf

\* `if refresh is None: refresh = getattr(self.Index, "auto_refresh",
\* DODConfig.auto_refresh_enabled())`
resolve_refresh(rf, attr, default) ==
    IF rf = NotGiven THEN (IF attr # Undefined THEN attr ELSE default) ELSE rf

\* whether prep_func(instance) of some field raises: it can wherever prepare runs
prepare_outcomes(act) == IF prepare_runs(act) THEN BOOLEAN ELSE {FALSE}

\* a plausible slip: the failing record is passed over and the stream goes on
bpc_after_prepare_error_skipping(b) == b

\* no handler stands between prep_func and update's caller: the call is over
bpc_after_prepare_error(b) == "raised"

\* post_index.send(...) runs the receivers inside bulk and lets their exceptions
\* through; `return response` is reached only if none raised
bpc_after_send(listener_raises) == IF listener_raises THEN "raised" ELSE "returned"

\* Document.update up to the call of _bulk, which picks the strategy
update ==
    /\ bpc = "ready"
    /\ \E objs \in ObjectLists, act \in OpTypes, sfx \in UpdateSuffixes,
          par \in BOOLEAN, roe \in BOOLEAN, rf \in RefreshArgs :
          /\ object_list' = objs
          /\ action' = act
          /\ index_suffix' = sfx
          /\ update_index_name' = IF Truthy(sfx) THEN get_index_name(sfx) ELSE None
          /\ refresh_arg' = rf
          /\ refresh' = resolve_refresh(rf, auto_refresh, default_refresh)
          /\ parallel' = par
          /\ raise_on_error' = roe
          /\ bpc' = IF par THEN "parallel_bulk" ELSE "bulk"
    /\ UNCHANGED <<envvars, pos, buffer, emitted, prepared, engine_writes,
                   signals, result, error, prepare_failed_at>>
    /\ UNCHANGED <<ivars, cvars, pvars>>

\* the helper asks the stream for its next action: _get_actions takes the next
\* record and yields its action, or passes over it
next_action ==
    /\ bpc \in {"bulk", "parallel_bulk"}
    /\ pos < Len(object_list)
    /\ Len(buffer) < helper_chunk_size
    /\ LET r == object_list[pos + 1]
       IN  /\ pos' = pos + 1
           /\ IF get_actions_includes(action, r)
              THEN \E fails \in prepare_outcomes(action) :
                     IF fails
                     THEN /\ prepare_failed_at' = pos + 1
                          /\ bpc' = bpc_after_prepare_error(bpc)
                          /\ error' = IF bpc' = "raised" THEN "PrepareError" ELSE error
                          /\ UNCHANGED <<emitted, buffer, prepared>>
                     ELSE /\ emitted' = Append(emitted,
                                         prepare_action(r, action, update_index_name))
                          /\ buffer' = Append(buffer,
                                         prepare_action(r, action, update_index_name))
                          /\ prepared' = IF prepare_runs(action) THEN Append(prepared, r)
                                         ELSE prepared
                          /\ UNCHANGED <<prepare_failed_at, bpc, error>>
              ELSE UNCHANGED <<emitted, buffer, prepared, prepare_failed_at, bpc, error>>
    /\ UNCHANGED <<envvars, argvars, engine_writes, signals, result>>
    /\ UNCHANGED <<ivars, cvars, pvars>>

\* the helper sends a full chunk, or the last one, and the engine answers; a
\* failed action makes the helper raise when raise_on_error is set
send_chunk ==
    /\ bpc \in {"bulk", "parallel_bulk"}
    /\ buffer # <<>>
    /\ Len(buffer) = helper_chunk_size \/ pos = Len(object_list)
    /\ \E oks \in [1..Len(buffer) -> BOOLEAN] :
          /\ engine_writes' = engine_writes \o
                [ k \in 1..Len(buffer) |-> [action |-> buffer[k], ok |-> oks[k]] ]
          /\ bpc' = IF raise_on_error /\ \E k \in 1..Len(buffer) : ~oks[k]
                    THEN "raised" ELSE bpc
          /\ error' = IF raise_on_error /\ \E k \in 1..Len(buffer) : ~oks[k]
                      THEN "BulkIndexError" ELSE error
    /\ buffer' = <<>>
    /\ UNCHANGED <<envvars, argvars, pos, emitted, prepared, signals, result,
                   prepare_failed_at>>
    /\ UNCHANGED <<ivars, cvars, pvars>>

IsOk(w) == w.ok
IsFailed(w) == ~w.ok

\* what opensearchpy.helpers.bulk returns: (successes, errors)
bulk_response(written) ==
    << Len(SelectSeq(written, IsOk)), SelectSeq(written, IsFailed) >>

\* Document.bulk: the helper has returned; post_index is sent with Signal.send,
\* which lets a receiver's exception through; otherwise the response is returned
bulk ==
    /\ bpc = "bulk"
    /\ drained(pos, buffer, object_list)
    /\ signals' = Append(signals,
                         [sender |-> DocumentClass, actions |-> emitted,
                          response |-> bulk_response(engine_writes)])
    /\ \E listener_raises \in BOOLEAN :
          /\ bpc' = bpc_after_send(listener_raises)
          /\ IF bpc' = "raised"
             THEN error' = "ListenerError" /\ UNCHANGED result
             ELSE result' = bulk_response(engine_writes) /\ UNCHANGED error
    /\ UNCHANGED <<envvars, argvars, pos, buffer, emitted, prepared, engine_writes,
                   prepare_failed_at>>
    /\ UNCHANGED <<ivars, cvars, pvars>>

\* Document.parallel_bulk: deque(bulk_actions, maxlen=0) has run the generator to
\* its end; the fixed result is returned
parallel_bulk ==
    /\ bpc = "parallel_bulk"
    /\ drained(pos, buffer, object_list)
    /\ result' = << 1, <<>> >>
    /\ bpc' = "returned"
    /\ UNCHANGED <<envvars, argvars, pos, buffer, emitted, prepared, engine_writes,
                   signals, error, prepare_failed_at>>
    /\ UNCHANGED <<ivars, cvars, pvars>>

\* the values of an update call's variables before the call
NoCall ==
    /\ object_list = <<>>
    /\ action = "index"
    /\ index_suffix = None
    /\ update_index_name = None
    /\ refresh_arg = NotGiven
    /\ refresh = NotGiven
    /\ parallel = FALSE
    /\ raise_on_error = TRUE
    /\ pos = 0
    /\ buffer = <<>>
    /\ emitted = <<>>
    /\ prepared = <<>>
    /\ engine_writes = <<>>
    /\ signals = <<>>
    /\ result = None
    /\ error = "none"
    /\ prepare_failed_at = 0

InitBulk ==
    /\ should_index \in [Records -> BOOLEAN]
    /\ auto_refresh \in {Undefined, "True", "False"}
    /\ default_refresh \in {"True", "False"}
    /\ NoCall
    /\ bpc = "ready"

\* the bulk part when the model is about something else
IdleBulk ==
    /\ should_index = [r \in Records |-> TRUE]
    /\ auto_refresh = Undefined
    /\ default_refresh = "False"
    /\ NoCall
    /\ bpc = "idle"

NextBulk == update \/ next_action \/ send_chunk \/ bulk \/ parallel_bulk

\* a document type without Index.auto_refresh, the process default off
InitBulkOnly ==
    /\ InitBulk
    /\ auto_refresh = Undefined
    /\ default_refresh = "False"
    /\ chunk_size \in 1..MaxBulkChunk
    /\ IdleIndex
    /\ IdlePage

SpecBulk == InitBulkOnly /\ [][NextBulk]_vars

\* every refresh configuration, for a document type that indexes every record
InitRefreshOnly ==
    /\ InitBulk
    /\ should_index = [r \in Records |-> TRUE]
    /\ chunk_size = 1
    /\ IdleIndex
    /\ IdlePage

SpecRefresh == InitRefreshOnly /\ [][NextBulk]_vars

\* a record set that does not change during the iteration
InitPageOnly == InitPage /\ IdleIndex /\ IdleBulk

SpecPage == InitPageOnly /\ [][NextPage]_vars

\* a record set other writers change; the consumer keeps asking for the next record
SpecPageWrites ==
    InitPageOnly /\ [][NextPageWrites]_vars /\ WF_vars(NextPage)

InitIndexOnly == InitIndex /\ chunk_size = 1 /\ IdlePage /\ IdleBulk

SpecIndex == InitIndexOnly /\ [][NextIndex]_vars

\* lifecycle calls of two callers whose migrate calls can interleave
SpecRace == InitIndexOnly /\ [][NextRace]_vars

(***************************************************************************)
(* The three parts side by side: a lifecycle history, one iteration of     *)
(* get_indexing_queryset and one update call, interleaved.                 *)
(***************************************************************************)
Init == InitIndex /\ InitPage /\ InitBulk

Next == NextIndex \/ NextRace \/ NextPageWrites \/ NextBulk

Spec == Init /\ [][Next]_vars

(***************************************************************************)
(* Claims about the index lifecycle, checked under SpecIndex.              *)
(***************************************************************************)
\* the indices holding the alias named after the document in the alias table al
Holders(al) == { a.index : a \in { x \in al : x.alias = BaseName } }

LastCall == calls[Len(calls)]

\* how many actions of a batch have the given op
CountOp(actions, op) == Cardinality({ k \in DOMAIN actions : actions[k].op = op })

\* the last two calls are init(S1) then init(S2), S1 # S2, and nothing was named
\* after the document when the first of them began
C1_Case ==
    /\ Len(calls) >= 2
    /\ LET c1 == calls[Len(calls) - 1]  c2 == calls[Len(calls)]
       IN  /\ c1.op = "init" /\ c2.op = "init"
           /\ c1.suffix # c2.suffix
           /\ ~exists(c1.indices, c1.aliases, BaseName)

\* C1 as stated: after init(S1) then init(S2) from an engine with nothing named B,
\* the one holder of alias B is B--S2, the generation initialized last.
C1_LastInitializedHoldsAlias ==
    C1_Case => Holders(aliases) = { get_index_name(LastCall.suffix) }

\* C1 amended: after init(S1) then init(S2) from an engine with nothing named B,
\* exactly one concrete index holds alias B and it is B--S1, the generation
\* initialized first; B--S2 exists and does not hold the alias.
C1_FirstInitializedHoldsAlias ==
    C1_Case =>
        /\ Holders(aliases) = { get_index_name(calls[Len(calls) - 1].suffix) }
        /\ get_index_name(LastCall.suffix) \in indices
        /\ get_index_name(LastCall.suffix) \notin Holders(aliases)

C1_Witness == C1_Case /\ Cardinality(Holders(aliases)) = 1

\* C2: in every reachable engine state at most one index holds alias B.
C2_AtMostOneHolder == Cardinality(Holders(aliases)) <= 1

\* a migrate has just moved the alias from one generation to another
C2_Witness ==
    /\ Len(calls) >= 1
    /\ LastCall.op = "migrate" /\ ~LastCall.raised
    /\ Holders(LastCall.aliases) # {}
    /\ get_index_name(LastCall.suffix) \notin Holders(LastCall.aliases)
    /\ Holders(aliases) = { get_index_name(LastCall.suffix) }

\* the last call is a migrate that found no active generation and an index with
\* the bare base name
C3_Case ==
    /\ Len(calls) >= 1
    /\ LastCall.op = "migrate"
    /\ get_active_index(LastCall.indices, LastCall.aliases) = None
    /\ BaseName \in LastCall.indices

\* C3 as stated: in the name-collision case the batch holds exactly one remove
\* and one add action, and the bare index is deleted before the batch is sent.
C3_OneRemoveOneAdd ==
    C3_Case =>
        /\ Len(requests) = 2
        /\ requests[1] = DeleteRequest(BaseName)
        /\ requests[2].op = "update_aliases"
        /\ CountOp(requests[2].actions, "remove") = 1
        /\ CountOp(requests[2].actions, "add") = 1

\* C3 amended: in the name-collision case the batch holds exactly one action, the
\* add of alias B to B--suffix, and no remove action; the bare index B is deleted
\* before the batch is sent.
C3_OneAddNoRemove ==
    C3_Case =>
        /\ Len(requests) = 2
        /\ requests[1] = DeleteRequest(BaseName)
        /\ requests[2] =
              UpdateAliasesRequest(<< AddAction(get_index_name(LastCall.suffix)) >>)
        /\ CountOp(requests[2].actions, "remove") = 0
        /\ BaseName \notin indices

C3_Witness == C3_Case /\ ~LastCall.raised /\ Holders(aliases) # {}

\* C4: a migrate whose alias update the engine rejects leaves the engine (indices
\* and alias holders) as it was before the call.
C4_FailedMigrateChangesNothing ==
    (Len(calls) >= 1 /\ LastCall.op = "migrate" /\ LastCall.raised) =>
        /\ indices = LastCall.indices
        /\ aliases = LastCall.aliases

(***************************************************************************)
(* Claims about get_indexing_queryset.                                     *)
(***************************************************************************)
\* ceil(n / p)
CeilDiv(n, p) == (n + p - 1) \div p

\* C5: over a record set that does not change, the exhausted generator has yielded
\* exactly the N records, each once, in primary key order, in ceil(N / P) page
\* pulls (checked under SpecPage, N in 0..MaxRecords, P in 1..MaxChunk).
C5_AllRecordsInOrder ==
    pc = "finished" =>
        /\ yielded = order_by_pk(db)
        /\ done = Cardinality(db)
        /\ pulls = CeilDiv(Cardinality(db), chunk_size)

\* an exhausted generator whose last page was a partial one
C5_Witness ==
    /\ pc = "finished"
    /\ chunk_size > 1
    /\ Cardinality(db) > chunk_size
    /\ Cardinality(db) % chunk_size # 0
    /\ Len(yielded) = Cardinality(db)

\* C6: the pagination loop terminates, also when other writers insert or remove
\* records after the count (checked under SpecPageWrites, whose fairness says
\* the consumer keeps iterating).
C6_Terminates == <>(pc = "finished")

(***************************************************************************)
(* Claims about the action builder and the bulk strategies, checked under  *)
(* SpecBulk.                                                               *)
(***************************************************************************)
\* the records _get_actions is through with: those taken from object_list so
\* far, less the one prepare failed on
Consumed ==
    SubSeq(object_list, 1, IF prepare_failed_at # 0 THEN prepare_failed_at - 1 ELSE pos)

Passes(r) == should_index[r]

\* the _id of each action of a sequence of actions
Ids(seq) == [ k \in DOMAIN seq |-> seq[k]["_id"] ]

\* C7: for a non-delete op the actions emitted are those of the records on which
\* should_index_object is true, none for a record on which it is false; for
\* delete there is one action per record taken, whatever the predicate says.
C7_PredicateGatesAllButDelete ==
    IF action = "delete"
    THEN Ids(emitted) = Consumed
    ELSE Ids(emitted) = SelectSeq(Consumed, Passes)

\* a delete call over records the predicate refuses, all of them emitted
C7_Witness ==
    /\ bpc = "returned"
    /\ action = "delete"
    /\ object_list # <<>>
    /\ \A k \in DOMAIN object_list : ~should_index[object_list[k]]
    /\ Len(emitted) = Len(object_list)

\* the record each emitted action was built from
EmittedRecords ==
    IF action = "delete" THEN Consumed ELSE SelectSeq(Consumed, Passes)

\* C8: every emitted action has the op type asked for, the target index (or the
\* bare base name when none is given) and generate_id(record) as its id; for
\* delete its source is None and prepare has not run; for update the prepared
\* mapping is under "doc" and there is no "_source"; for index and create the
\* prepared mapping is under "_source" and there is no "doc".
C8_ActionDescriptorByOpType ==
    /\ Len(emitted) = Len(EmittedRecords)
    /\ \A k \in DOMAIN emitted :
          LET e == emitted[k]
              r == EmittedRecords[k]
          IN  /\ e["_op_type"] = action
              /\ e["_index"] = IF update_index_name = None THEN BaseName
                               ELSE update_index_name
              /\ e["_id"] = generate_id(r)
              /\ CASE action = "delete" ->
                        /\ "doc" \notin DOMAIN e
                        /\ e["_source"] = None
                        /\ prepared = <<>>
                   [] action = "update" ->
                        /\ "_source" \notin DOMAIN e
                        /\ "doc" \in DOMAIN e
                        /\ e["doc"] = prepare(r)
                        /\ prepared = EmittedRecords
                   [] OTHER ->
                        /\ "doc" \notin DOMAIN e
                        /\ "_source" \in DOMAIN e
                        /\ e["_source"] = prepare(r)
                        /\ prepared = EmittedRecords

\* an update call with a target index has emitted partial-document actions
C8_Witness ==
    /\ bpc = "returned"
    /\ action = "update"
    /\ update_index_name = get_index_name(<<"1">>)
    /\ Len(emitted) >= 2

\* the number of actions the stream given to the bulk helper holds
StreamLength ==
    Len(IF action = "delete" THEN object_list ELSE SelectSeq(object_list, Passes))

\* C9: when parallel_bulk has returned, the stream is consumed, no action is
\* pending, the engine has received exactly the K actions of the stream, each
\* once, and the result is (1, []) whatever the engine answered.
C9_ParallelBulkDrainsTheStream ==
    (bpc = "returned" /\ parallel) =>
        /\ pos = Len(object_list)
        /\ buffer = <<>>
        /\ Len(engine_writes) = StreamLength
        /\ [ k \in DOMAIN engine_writes |-> engine_writes[k].action ] = emitted
        /\ result = << 1, <<>> >>

\* a parallel call of several chunks, one of whose actions the engine refused
C9_Witness ==
    /\ bpc = "returned"
    /\ parallel
    /\ chunk_size < Len(engine_writes)
    /\ \E k \in DOMAIN engine_writes : ~engine_writes[k].ok

\* C10: once an update call that submitted actions has returned, with either
\* strategy, post_index has been sent exactly once, with the document type, the
\* actions and the response the call returns.
C10_SignalAfterEverySubmission ==
    (bpc = "returned" /\ engine_writes # <<>>) =>
        signals = << [sender |-> DocumentClass, actions |-> emitted,
                      response |-> result] >>

(***************************************************************************)
(* Claims about failures inside an update call, checked under SpecBulk.    *)
(***************************************************************************)
\* C11 as stated: once the engine has accepted every action of a sequential call
\* and post_index has been sent, whatever its receivers did (one of them may have
\* raised), the call has returned the engine's response and no exception has
\* left it.
C11_ListenerFailureLeavesResult ==
    (/\ signals # <<>>
     /\ engine_writes # <<>>
     /\ \A k \in DOMAIN engine_writes : engine_writes[k].ok) =>
        /\ bpc = "returned"
        /\ error = "none"
        /\ result = signals[1].response

\* the records of a sequence on which the stream emits an action
Emitting(seq) == IF action = "delete" THEN seq ELSE SelectSeq(seq, Passes)

\* C12: when prepare fails on the k-th record of an update call with a non-delete
\* op type, the call ends with that failure, the stream has stopped at record k,
\* the actions emitted are those of the records before k, none for record k or a
\* later one, no post_index is sent and nothing is returned.
C12_PrepareFailureReachesCaller ==
    prepare_failed_at # 0 =>
        /\ action # "delete"
        /\ bpc = "raised"
        /\ error = "PrepareError"
        /\ pos = prepare_failed_at
        /\ Ids(emitted) = Emitting(SubSeq(object_list, 1, prepare_failed_at - 1))
        /\ signals = <<>>
        /\ result = None

\* prepare failed on the second record, after an action for the first was emitted
C12_Witness ==
    /\ prepare_failed_at = 2
    /\ error = "PrepareError"
    /\ Len(emitted) = 1

(***************************************************************************)
(* More claims about the index lifecycle, checked under SpecIndex.         *)
(***************************************************************************)
\* C13: get_index_name(S) is the base name, then "--", then S, for every suffix
\* S; in every engine state get_all_indices returns existing indices whose names
\* start with the base name and "--", each once, in ascending order.
C13_NameAndSortedGenerations ==
    /\ \A S \in Suffixes : get_index_name(S) = <<"b", "-", "-">> \o S
    /\ LET all == get_all_indices(indices)
       IN  /\ \A k \in DOMAIN all :
                 /\ all[k] \in indices
                 /\ Len(all[k]) >= 3
                 /\ SubSeq(all[k], 1, 3) = <<"b", "-", "-">>
           /\ \A k \in 1..(Len(all) - 1) : StrLess(all[k], all[k + 1])

\* three generations created in an order that is not the sorted one, next to an
\* index with the bare base name
C13_Witness ==
    /\ BaseName \in indices
    /\ Len(calls) = 4
    /\ calls[2].op = "init" /\ calls[2].suffix = <<"2">>
    /\ calls[3].op = "init" /\ calls[3].suffix = <<"1", "2">>
    /\ calls[4].op = "init" /\ calls[4].suffix = <<"1">>
    /\ get_all_indices(indices) = << <<"b", "-", "-", "1">>,
                                     <<"b", "-", "-", "1", "2">>,
                                     <<"b", "-", "-", "2">> >>

\* the last call is an init; what it found and what it did
LastIsInit == calls # <<>> /\ LastCall.op = "init"

\* the concrete index of the last call did not exist when the call began
LastCreated == get_index_name(LastCall.suffix) \notin LastCall.indices

\* the last call went into migrate: migrate sends an alias batch, init itself none
LastMigrated == \E k \in DOMAIN requests : requests[k].op = "update_aliases"

\* C14 as stated: init(suffix) calls migrate exactly when the concrete index of
\* the suffix did not exist before the call.
C14_MigratesIffCreated ==
    LastIsInit => (LastMigrated <=> LastCreated)

\* C14, amended: init(suffix) calls migrate exactly when nothing, index or alias,
\* was named after the document when the call began.
C14_MigratesIffNothingNamedBase ==
    LastIsInit =>
        (LastMigrated <=> ~exists(LastCall.indices, LastCall.aliases, BaseName))

\* an init that created its concrete index while another generation held the
\* alias, and did not migrate
C14_Witness ==
    /\ LastIsInit
    /\ LastCreated
    /\ Holders(LastCall.aliases) # {}
    /\ get_index_name(LastCall.suffix) \notin Holders(LastCall.aliases)
    /\ ~LastMigrated

(***************************************************************************)
(* A claim about interleaved migrate calls, checked under SpecRace.        *)
(***************************************************************************)
\* the two migrate calls whose alias batches reached the engine last were accepted,
\* had different targets, and the later one had read the engine before the batch
\* of the earlier one arrived
C15_Case ==
    /\ Submitting = {}
    /\ Len(calls) >= 2
    /\ LET c1 == calls[Len(calls) - 1]  c2 == calls[Len(calls)]
       IN  /\ c1.op = "migrate" /\ c2.op = "migrate"
           /\ ~c1.raised /\ ~c2.raised
           /\ c1.suffix # c2.suffix
           /\ c2.overlapped

\* C15 as stated: after two interleaved migrate calls with different targets have
\* both completed, the alias named after the document is held by the target of
\* the call whose alias batch reached the engine last, and by no other index.
C15_LastWriterWins ==
    C15_Case => Holders(aliases) = { get_index_name(LastCall.suffix) }

(***************************************************************************)
(* A claim about the pagination loop, checked under SpecPage.              *)
(***************************************************************************)
\* what holds of the loop's counters in a state
LoopCounters ==
    /\ 0 <= i /\ i <= Cardinality(db)
    /\ 0 <= done /\ done <= Cardinality(db)
    /\ done = Len(yielded)
    /\ \A k, l \in DOMAIN yielded : k # l => yielded[k] # yielded[l]

\* C16: over a record set that does not change, in every state of the loop the
\* offset i and the counter done lie between 0 and the number of records, done is
\* the number of records yielded so far, no record is yielded twice, and no step
\* decreases i or done.
C16_LoopCountersBoundedAndMonotonic ==
    [](LoopCounters) /\ [][i' >= i /\ done' >= done]_vars

\* the loop has gone through several pages, the last of them a short one
C16_Witness ==
    /\ pc = "finished"
    /\ chunk_size = 3
    /\ count = 4
    /\ i = 4
    /\ done = 4
    /\ pulls = 2

(***************************************************************************)
(* A claim about the refresh keyword, checked under SpecRefresh.           *)
(***************************************************************************)
\* an update call has been made
Called == bpc \notin {"ready", "idle"}

\* C17: the refresh value update hands to either bulk strategy is the value given
\* at the call when one is given (True or False, unchanged), else the document
\* type's Index.auto_refresh when it is defined, else the process-wide default.
C17_RefreshPrecedence ==
    Called =>
        refresh = CASE refresh_arg \in {"True", "False"} -> refresh_arg
                    [] auto_refresh \in {"True", "False"} -> auto_refresh
                    [] OTHER -> default_refresh

\* a parallel call with an explicit False against a document type and a process
\* default that both say True
C17_Witness ==
    /\ bpc = "returned"
    /\ parallel
    /\ refresh_arg = "False"
    /\ auto_refresh = "True"
    /\ default_refresh = "True"
    /\ refresh = "False"
    /\ engine_writes # <<>>

(***************************************************************************)
(* A claim about the action stream of one update call, checked under       *)
(* SpecBulk.                                                               *)
(***************************************************************************)
\* the records given to update are distinct
DistinctRecords ==
    \A k, l \in DOMAIN object_list : k # l => object_list[k] # object_list[l]

\* the position in object_list of the record with the given id
PositionOf(id) == CHOOSE k \in DOMAIN object_list : object_list[k] = id

\* the actions the engine has received, in the order it received them
Submitted == [ k \in DOMAIN engine_writes |-> engine_writes[k].action ]

\* C18: for an update call over distinct records, the actions emitted hold at most
\* one action per record, of a record of the list, in the order of the list; each
\* has the op type asked for and the same target index, the base name followed
\* by "--" and index_suffix when one is given, else the bare base name; the
\* engine receives emitted actions only, none of them twice, and from the
\* sequential strategy in the order of the stream. This holds in every state of
\* the call, so also for what was emitted and submitted before a failure.
C18_OneActionPerRecordInOrder ==
    DistinctRecords =>
        /\ \A k \in DOMAIN emitted :
              /\ \E l \in DOMAIN object_list : object_list[l] = emitted[k]["_id"]
              /\ emitted[k]["_op_type"] = action
              /\ emitted[k]["_index"] =
                    IF index_suffix = None THEN <<"b">>
                    ELSE <<"b", "-", "-">> \o index_suffix
        /\ \A k, l \in DOMAIN emitted :
              k < l => PositionOf(emitted[k]["_id"]) < PositionOf(emitted[l]["_id"])
        /\ \A k \in DOMAIN Submitted : \E l \in DOMAIN emitted : Submitted[k] = emitted[l]
        /\ \A k, l \in DOMAIN Submitted :
              k # l => Submitted[k]["_id"] # Submitted[l]["_id"]
        /\ ~parallel => /\ Len(Submitted) <= Len(emitted)
                        /\ Submitted = SubSeq(emitted, 1, Len(Submitted))

\* a call to a suffixed index that failed on its second record after the action
\* of the first was submitted
C18_Witness ==
    /\ DistinctRecords
    /\ bpc = "raised"
    /\ index_suffix = <<"1">>
    /\ Len(object_list) = 2
    /\ Len(emitted) = 1
    /\ Len(engine_writes) = 1
    /\ prepare_failed_at = 2

(***************************************************************************)
(* Claims about what the lifecycle calls leave alone, checked under        *)
(* SpecIndex.                                                              *)
(***************************************************************************)
\* the indices of the engine when the k-th call of the log was over
IndicesAfter(k) == IF k = Len(calls) THEN indices ELSE calls[k + 1].indices

\* C19: no call of the log deleted an index other than the one with the bare base
\* name, so every generation that existed before a call exists after it; the
\* bare index was deleted only by a call that found no generation holding the
\* alias; every delete request names the bare base name.
C19_OnlyBareIndexDeleted ==
    /\ \A k \in DOMAIN calls :
          LET deleted == calls[k].indices \ IndicesAfter(k)
          IN  /\ deleted \subseteq { <<"b">> }
              /\ deleted # {} => /\ calls[k].op \in {"init", "migrate"}
                                 /\ Holders(calls[k].aliases) = {}
    /\ \A k \in DOMAIN requests :
          requests[k].op = "delete" => requests[k].index = <<"b">>

\* a migrate that deleted the bare index next to two generations, which remain
C19_Witness ==
    /\ calls # <<>>
    /\ LastCall.op = "migrate"
    /\ BaseName \in LastCall.indices
    /\ BaseName \notin indices
    /\ Cardinality(indices) >= 2
    /\ indices = LastCall.indices \ {BaseName}

\* the last call is a migrate to an existing index
LastIsMigrate ==
    /\ calls # <<>>
    /\ LastCall.op = "migrate"
    /\ get_index_name(LastCall.suffix) \in LastCall.indices

\* the last call repeats the accepted migrate call before it
Repeated ==
    /\ Len(calls) >= 2
    /\ calls[Len(calls) - 1].op = "migrate"
    /\ calls[Len(calls) - 1].suffix = LastCall.suffix
    /\ ~calls[Len(calls) - 1].raised

\* C20: a migrate to an index that already holds the alias, and a migrate that
\* repeats the accepted migrate before it, is accepted, leaves the engine as it
\* found it, with the target the one holder of the alias, and deletes nothing;
\* whenever migrate finds a holder of the alias, all it sends is one batch: the
\* remove from that holder, then the add to the target.
C20_MigrateIdempotent ==
    LastIsMigrate =>
        LET target == get_index_name(LastCall.suffix)
        IN  /\ (Holders(LastCall.aliases) = {target} \/ Repeated) =>
                  /\ ~LastCall.raised
                  /\ indices = LastCall.indices
                  /\ aliases = LastCall.aliases
                  /\ Holders(aliases) = {target}
                  /\ \A k \in DOMAIN requests : requests[k].op # "delete"
            /\ \A holder \in Holders(LastCall.aliases) :
                  requests = << [op |-> "update_aliases", index |-> None,
                                 actions |-> << [op |-> "remove", index |-> holder,
                                                 alias |-> <<"b">>],
                                                [op |-> "add", index |-> target,
                                                 alias |-> <<"b">>] >>] >>

\* migrate('1') twice in a row, the first of them taking the alias from another
\* generation
C20_Witness ==
    /\ LastIsMigrate
    /\ Repeated
    /\ Holders(calls[Len(calls) - 1].aliases) # {}
    /\ get_index_name(LastCall.suffix) \notin Holders(calls[Len(calls) - 1].aliases)
    /\ Holders(aliases) = { get_index_name(LastCall.suffix) }

====
